---- MODULE Spec2Model ----
(***************************************************************************)
(* MolPic: the orchestration layer (cli.py), the resolver (resolve.py) and *)
(* the renderer (core.py) as state machines.                               *)
(*                                                                         *)
(* Text is modelled as a sequence of one-character strings, so that        *)
(* strip / lower / replace / split / slicing / int() are computed the way  *)
(* Python computes them.  The chemistry toolkit and the PubChem client are *)
(* the environment: every call into them draws its outcome (a value or a   *)
(* raised exception) from the outcomes that call can have.                 *)
(***************************************************************************)
EXTENDS Integers, Sequences, FiniteSets, TLC

VARIABLES
    pc,         \* control location of the operation under way
    g,          \* _parse_grid: the argument
    parsed,     \* _parse_grid: how the call ended
    name,       \* resolve_name_to_smiles: the argument
    pubchem,    \* resolve_name_to_smiles: what the two PubChem lookups answer
    resolved,   \* resolve_name_to_smiles: how the call ended
    files,      \* the file system: the files written, each with what it holds
    dirs,       \* the file system: the directories created
    call,       \* renderer: the arguments of the last call
    rendered,   \* renderer: the RenderResult of the last call
    written,    \* renderer: the paths the last call wrote
    ncalls,     \* renderer: the calls made so far
    opts,       \* command: its arguments and options
    i,          \* command: the position of the loop over the queries / the rows
    items,      \* command: the (label, smiles) pairs kept for the panel
    skipped,    \* grid: the queries skipped with a warning
    lookups,    \* command: what PubChem answered for each query / row looked up
    exit,       \* command: how it ended
    df,             \* batch: the table read from the CSV file
    report_rows,    \* batch: the report entries so far
    report_csv,     \* batch: molpic_report.csv, once written
    rendered_items, \* batch: the (legend, smiles, out_file) of the rows rendered
    panel_index,    \* batch: the number of the next panel
    panels          \* batch: the panels asked of the grid renderer, in order

parseVars == <<g, parsed>>

resolveVars == <<name, pubchem, resolved>>

fsVars == <<files, dirs>>

renderVars == <<call, rendered, written, ncalls>>

cmdVars == <<opts, i, items, skipped, lookups, exit>>

batchVars == <<df, report_rows, report_csv, rendered_items, panel_index, panels>>

vars == <<pc, parseVars, resolveVars, fsVars, renderVars, cmdVars, batchVars>>

\* Python's None where a text is optional (no text has a 4-character element).
None == <<"None">>

\* Python's None where a record is optional.
NoneRec == [kind |-> "None"]

\* Python truthiness of an optional text: None and "" are false.
Truthy(text) == text # None /\ text # <<>>

\* What the variables of an operation hold while another one is under study.
ParseIdle == g = None /\ parsed = NoneRec

ResolveIdle == name = None /\ pubchem = NoneRec /\ resolved = NoneRec

RenderIdle ==
    /\ files = {}
    /\ dirs = {}
    /\ call = NoneRec
    /\ rendered = NoneRec
    /\ written = {}
    /\ ncalls = 0

CmdIdle ==
    /\ opts = NoneRec
    /\ i = 0
    /\ items = <<>>
    /\ skipped = <<>>
    /\ lookups = <<>>
    /\ exit = NoneRec

BatchIdle ==
    /\ df = NoneRec
    /\ report_rows = <<>>
    /\ report_csv = NoneRec
    /\ rendered_items = <<>>
    /\ panel_index = 0
    /\ panels = <<>>

-----------------------------------------------------------------------------
(* Python str operations                                                   *)

\* The printable ASCII characters in code point order, from 32 (the space);
\* the grave accent, 96, is spelled out.
AsciiPrintable ==
    <<" ", "!", "\"", "#", "$", "%", "&", "'", "(", ")", "*", "+",
      ",", "-", ".", "/", "0", "1", "2", "3", "4", "5", "6", "7",
      "8", "9", ":", ";", "<", "=", ">", "?", "@", "A", "B", "C",
      "D", "E", "F", "G", "H", "I", "J", "K", "L", "M", "N", "O",
      "P", "Q", "R", "S", "T", "U", "V", "W", "X", "Y", "Z", "[",
      "\\", "]", "^", "_", "grave", "a", "b", "c", "d", "e", "f", "g",
      "h", "i", "j", "k", "l", "m", "n", "o", "p", "q", "r", "s",
      "t", "u", "v", "w", "x", "y", "z", "{", "|", "}", "~">>

Chars == {AsciiPrintable[k] : k \in 1..Len(AsciiPrintable)} \cup {"\t"}

\* ord(ch)
CodePoint ==
    [ch \in Chars |->
        IF ch = "\t" THEN 9
        ELSE 31 + CHOOSE k \in 1..Len(AsciiPrintable) : AsciiPrintable[k] = ch]

\* chr(n), for a printable n
CharOf(n) == AsciiPrintable[n - 31]

IsUpper(ch) == CodePoint[ch] >= 65 /\ CodePoint[ch] <= 90

IsSpace(ch) == ch \in {" ", "\t"}

IsDigit(ch) == CodePoint[ch] >= 48 /\ CodePoint[ch] <= 57

\* str.lower(): an upper-case letter moves 32 code points up.
LowerCh(ch) == IF IsUpper(ch) THEN CharOf(CodePoint[ch] + 32) ELSE ch

Lower(s) == [k \in 1..Len(s) |-> LowerCh(s[k])]

\* str.replace(old, "") for a one-character old.
Remove(s, old) == SelectSeq(s, LAMBDA ch : ch # old)

\* str.replace(old, new) for one-character old and new.
Replace(s, old, new) == [k \in 1..Len(s) |-> IF s[k] = old THEN new ELSE s[k]]

RECURSIVE LStrip(_)
LStrip(s) == IF s # <<>> /\ IsSpace(Head(s)) THEN LStrip(Tail(s)) ELSE s

RECURSIVE RStrip(_)
RStrip(s) ==
    IF s # <<>> /\ IsSpace(s[Len(s)]) THEN RStrip(SubSeq(s, 1, Len(s) - 1)) ELSE s

\* str.strip()
Strip(s) == RStrip(LStrip(s))

\* s[:n]
Prefix(s, n) == SubSeq(s, 1, IF Len(s) < n THEN Len(s) ELSE n)

\* old in s
Contains(s, ch) == \E k \in 1..Len(s) : s[k] = ch

\* s.find(ch), 1-based; 0 when absent
Find(s, ch) ==
    IF Contains(s, ch) THEN CHOOSE k \in 1..Len(s) : s[k] = ch /\ \A j \in 1..(k - 1) : s[j] # ch
    ELSE 0

\* s.rfind(ch), 1-based; 0 when absent
RFind(s, ch) ==
    IF Contains(s, ch)
    THEN CHOOSE k \in 1..Len(s) : s[k] = ch /\ \A j \in (k + 1)..Len(s) : s[j] # ch
    ELSE 0

RECURSIVE DigitsValue(_)
DigitsValue(s) ==
    IF s = <<>> THEN 0
    ELSE 10 * DigitsValue(SubSeq(s, 1, Len(s) - 1)) + (CodePoint[s[Len(s)]] - 48)

ValueError == [kind |-> "ValueError"]

\* int(text): surrounding whitespace is dropped, one sign is allowed, the rest
\* must be one or more decimal digits; anything else raises ValueError.
PyInt(text) ==
    LET t == Strip(text)
        signed == t # <<>> /\ Head(t) \in {"+", "-"}
        body == IF signed THEN Tail(t) ELSE t
    IN  IF body = <<>> \/ \E k \in 1..Len(body) : ~IsDigit(body[k])
        THEN ValueError
        ELSE [kind |-> "int",
              value |-> IF signed /\ Head(t) = "-" THEN 0 - DigitsValue(body)
                        ELSE DigitsValue(body)]

\* All texts over an alphabet, up to a length.
RECURSIVE TextsOfLen(_, _)
TextsOfLen(alphabet, n) ==
    IF n = 0 THEN {<<>>}
    ELSE {Append(s, ch) : s \in TextsOfLen(alphabet, n - 1), ch \in alphabet}

TextsUpTo(alphabet, n) == UNION {TextsOfLen(alphabet, k) : k \in 0..n}

-----------------------------------------------------------------------------
(* cli.py: _parse_grid                                                     *)

BadParameter(msg) == [kind |-> "BadParameter", message |-> msg]

_parse_grid(text) ==
    LET s == Remove(Lower(text), " ")
    IN  IF ~Contains(s, "x") THEN BadParameter("Grid must be like 2x3")
        ELSE LET k == Find(s, "x")
                 r == PyInt(SubSeq(s, 1, k - 1))
                 c == IF r.kind = "int" THEN PyInt(SubSeq(s, k + 1, Len(s))) ELSE ValueError
             IN  IF r.kind # "int" \/ c.kind # "int" THEN ValueError
                 ELSE IF r.value <= 0 \/ c.value <= 0
                 THEN BadParameter("Grid rows/cols must be positive.")
                 ELSE [kind |-> "return", rows |-> r.value, cols |-> c.value]

MaxGridLen == 4

GridAlphabet == {"0", "2", "3", "x", "X", " ", "\t", "-", "a"}

ParseInit ==
    /\ pc = "parse_call"
    /\ g \in TextsUpTo(GridAlphabet, MaxGridLen)
    /\ parsed = NoneRec
    /\ ResolveIdle
    /\ RenderIdle
    /\ CmdIdle
    /\ BatchIdle

ParseGridCall ==
    /\ pc = "parse_call"
    /\ parsed' = _parse_grid(g)
    /\ pc' = "parse_done"
    /\ UNCHANGED <<g, resolveVars, fsVars, renderVars, cmdVars, batchVars>>

ParseNext == ParseGridCall

SpecParse == ParseInit /\ [][ParseNext]_vars

-----------------------------------------------------------------------------
(* resolve.py: resolve_name_to_smiles                                      *)

ResolveResult(query, smiles, source, pubchem_cid, message) ==
    [query |-> query, smiles |-> smiles, source |-> source,
     pubchem_cid |-> pubchem_cid, message |-> message]

Return(value) == [kind |-> "return", value |-> value]

Raise(exc) == [kind |-> "raise", exc |-> exc]

\* pcp.get_compounds answers with a list of compounds or raises.
Listed(compounds) == [kind |-> "list", compounds |-> compounds]

LookupRaises == [kind |-> "raise"]

\* Lines 29-32: the lookup by name and, when it matches nothing, the lookup
\* as a generic query.  A raising lookup raises out of the block.
lookup_compounds(env) ==
    IF env.by_name.kind = "raise" THEN Raise("PubChemError")
    ELSE IF env.by_name.compounds # <<>> THEN Return(env.by_name.compounds)
    ELSE IF env.by_query.kind = "raise" THEN Raise("PubChemError")
    ELSE Return(env.by_query.compounds)

\* Line 38: canonical_smiles or isomeric_smiles
first_smiles(c) ==
    IF Truthy(c.canonical_smiles) THEN c.canonical_smiles ELSE c.isomeric_smiles

\* Lines 34-42: the rest of the try block, given the compounds found.
resolve_match(q, compounds) ==
    IF compounds = <<>>
    THEN ResolveResult(q, None, "pubchem", "None", "No PubChem match found.")
    ELSE LET c == compounds[1]
             smiles == first_smiles(c)
             cid == c.cid
         IN  IF ~Truthy(smiles)
             THEN ResolveResult(q, None, "pubchem", cid,
                                "Matched PubChem entry but no SMILES returned.")
             ELSE ResolveResult(q, smiles, "pubchem", cid, "OK")

\* The except clause left out: what the block raised leaves the resolver.
resolve_except_missing(q, outcome) == outcome

\* Lines 43-44: the except clause turns what the block raised into a result.
resolve_except(q, outcome) ==
    IF outcome.kind = "raise"
    THEN Return(ResolveResult(q, None, "pubchem", "None", "PubChem resolution error"))
    ELSE outcome

resolve_name_to_smiles(text, env) ==
    LET q == Strip(text)
    IN  IF q = <<>>
        THEN Return(ResolveResult(text, None, "none", "None", "Empty name provided."))
        ELSE LET found == lookup_compounds(env)
             IN  resolve_except(q,
                    IF found.kind = "raise" THEN found
                    ELSE Return(resolve_match(q, found.value)))

MaxMatches == 2

Compounds ==
    [canonical_smiles : {None, <<>>, <<"C">>},
     isomeric_smiles : {None, <<"C", "C">>},
     cid : {"None", "702"}]

\* The compounds a lookup may list after the first one.
LaterCompounds ==
    {[canonical_smiles |-> <<"C", "=", "C">>, isomeric_smiles |-> None, cid |-> "6325"],
     [canonical_smiles |-> None, isomeric_smiles |-> None, cid |-> "None"]}

RECURSIVE MatchLists(_)
MatchLists(n) ==
    IF n = 0 THEN {<<>>}
    ELSE IF n = 1 THEN {<<>>} \cup {<<c>> : c \in Compounds}
    ELSE MatchLists(n - 1)
            \cup {Append(l, c) : l \in {m \in MatchLists(n - 1) : Len(m) = n - 1},
                                c \in LaterCompounds}

LookupAnswers == {Listed(l) : l \in MatchLists(MaxMatches)} \cup {LookupRaises}

ResolveNames == {<<>>, <<" ">>, <<"a">>, <<" ", "a", "\t">>}

ResolveInit ==
    /\ pc = "resolve_call"
    /\ name \in ResolveNames
    /\ pubchem \in [by_name : LookupAnswers, by_query : LookupAnswers]
    /\ resolved = NoneRec
    /\ ParseIdle
    /\ RenderIdle
    /\ CmdIdle
    /\ BatchIdle

ResolveCall ==
    /\ pc = "resolve_call"
    /\ resolved' = resolve_name_to_smiles(name, pubchem)
    /\ pc' = "resolve_done"
    /\ UNCHANGED <<parseVars, name, pubchem, fsVars, renderVars, cmdVars, batchVars>>

ResolveNext == ResolveCall

SpecResolve == ResolveInit /\ [][ResolveNext]_vars

-----------------------------------------------------------------------------
(* pathlib and the file system                                             *)

\* Path(p).name: what follows the last "/".
PathName(p) == SubSeq(p, RFind(p, "/") + 1, Len(p))

\* Path(p).parent: what precedes the last "/", "." when there is none.
PathParent(p) == IF RFind(p, "/") = 0 THEN <<".">> ELSE SubSeq(p, 1, RFind(p, "/") - 1)

\* Path(p).suffix: the name from its last "." on, unless that dot opens or
\* ends the name.
Suffix(p) ==
    LET nm == PathName(p)
        k == RFind(nm, ".")
    IN  IF k >= 2 /\ k <= Len(nm) - 1 THEN SubSeq(nm, k, Len(nm)) ELSE <<>>

\* A directory and the directories above it.
Ancestors(d) == {SubSeq(d, 1, k - 1) : k \in {j \in 2..Len(d) : d[j] = "/"}} \cup {d}

\* Path(out).parent.mkdir(parents=True, exist_ok=True)
mkdir_parents(made, out) == made \cup Ancestors(PathParent(out))

File(path, kind, smiles, legends, title) ==
    [path |-> path, kind |-> kind, smiles |-> smiles, legends |-> legends, title |-> title]

\* Writing a path replaces what it held.
WriteFile(fs, f) == {x \in fs : x.path # f.path} \cup {f}

-----------------------------------------------------------------------------
(* core.py: render_molecule, render_grid                                   *)

RenderResult(smiles, out_path, ok, message) ==
    [smiles |-> smiles, out_path |-> out_path, ok |-> ok, message |-> message]

\* The structure strings RDKit parses; Chem.MolFromSmiles gives None for any
\* other text.
ValidSmiles == {<<"C">>, <<"C", "C">>, <<"C", "=", "C">>, <<"C", "1", "C", "C", "1">>}

\* Removing the hydrogens changes the molecule drawn and, when it fails, is
\* skipped: either way a molecule is returned.
_mol_from_smiles(smiles) ==
    IF smiles \in ValidSmiles THEN [kind |-> "mol", smiles |-> smiles] ELSE NoneRec

PNG == <<".", "p", "n", "g">>

SVG == <<".", "s", "v", "g">>

\* The check of the suffix left out.
accepted_suffix_unchecked(suffix) == TRUE

\* suffix not in [".png", ".svg"], negated
accepted_suffix(suffix) == suffix \in {PNG, SVG}

\* The second save's failure swallowed as the first one's is.
png_save_swallowed(env) == FALSE

\* Lines 58-61 and 167-170: img.save with the DPI and, when that raises,
\* without it.  An exception leaves the block only when both saves raise.
png_save_raises(env) == env.save_dpi = "raise" /\ env.save = "raise"

\* Lines 57-61 and 158-170: the PNG file is on disk once one save went through.
png_saved(env) == env.save_dpi = "ok" \/ env.save = "ok"

\* The try block of either renderer: whether an exception leaves it.
block_raises(suffix, env) ==
    \/ env.draw = "raise"
    \/ IF suffix = PNG THEN png_save_raises(env) ELSE env.save = "raise"

\* The try block of either renderer: whether the image file was written.
image_written(suffix, env) ==
    /\ env.draw = "ok"
    /\ IF suffix = PNG THEN png_saved(env) ELSE env.save = "ok"

Effect(result, fs, made, wrote) ==
    [result |-> result, files |-> fs, dirs |-> made, written |-> wrote]

\* Lines 55-78.
molecule_write(s, out, suffix, legend, fsys, env) ==
    Effect(IF block_raises(suffix, env)
           THEN RenderResult(s, None, FALSE, "Render error")
           ELSE RenderResult(s, out, TRUE, "OK"),
           IF image_written(suffix, env)
           THEN WriteFile(fsys.files, File(out, suffix, <<s>>, <<legend>>, None))
           ELSE fsys.files,
           fsys.dirs,
           IF image_written(suffix, env) THEN {out} ELSE {})

render_molecule(smiles, out, legend, fsys, env) ==
    LET s == Strip(IF smiles = None THEN <<>> ELSE smiles)
    IN  IF s = <<>>
        THEN Effect(RenderResult(None, None, FALSE, "Empty SMILES provided."),
                    fsys.files, fsys.dirs, {})
        ELSE IF _mol_from_smiles(s) = NoneRec
        THEN Effect(RenderResult(s, None, FALSE, "RDKit could not parse the SMILES."),
                    fsys.files, fsys.dirs, {})
        ELSE LET made == mkdir_parents(fsys.dirs, out)
                 suffix == Lower(Suffix(out))
             IN  IF ~accepted_suffix(suffix)
                 THEN Effect(RenderResult(s, None, FALSE, "Output must end with .png or .svg"),
                             fsys.files, made, {})
                 ELSE molecule_write(s, out, suffix, legend,
                                     [files |-> fsys.files, dirs |-> made], env)

\* legends=None
NoList == <<None>>

GRID == <<"G", "R", "I", "D">>

\* Lines 143-148: one cell of the grid, None for a blank or unparsable entry.
grid_cell(s) ==
    LET ss == Strip(IF s = None THEN <<>> ELSE s)
    IN  IF ss = <<>> \/ _mol_from_smiles(ss) = NoneRec THEN None ELSE ss

\* _inject_svg_title: a blank title leaves the markup as it is.
injected_title(suffix, title) ==
    IF suffix = SVG /\ Strip(title) # <<>> THEN Strip(title) ELSE None

\* Lines 157-190.
grid_write(mols, out, suffix, used_legends, title, fsys, env) ==
    Effect(IF block_raises(suffix, env)
           THEN RenderResult(GRID, None, FALSE, "Grid render error")
           ELSE RenderResult(GRID, out, TRUE, "OK"),
           IF image_written(suffix, env)
           THEN WriteFile(fsys.files,
                          File(out, suffix, mols, used_legends, injected_title(suffix, title)))
           ELSE fsys.files,
           fsys.dirs,
           IF image_written(suffix, env) THEN {out} ELSE {})

render_grid(smiles_list, out, legends, title, fsys, env) ==
    IF smiles_list = <<>>
    THEN Effect(RenderResult(None, None, FALSE, "No molecules provided for grid rendering."),
                fsys.files, fsys.dirs, {})
    ELSE LET used_legends ==
                 IF legends = NoList \/ legends = <<>>
                 THEN [k \in 1..Len(smiles_list) |-> <<>>] ELSE legends
             mols == [k \in 1..Len(smiles_list) |-> grid_cell(smiles_list[k])]
             made == mkdir_parents(fsys.dirs, out)
             suffix == Lower(Suffix(out))
         IN  IF ~accepted_suffix(suffix)
             THEN Effect(RenderResult(None, None, FALSE,
                                      "Grid output must end with .png or .svg"),
                         fsys.files, made, {})
             ELSE grid_write(mols, out, suffix, used_legends, title,
                             [files |-> fsys.files, dirs |-> made], env)

\* What the toolkit and the disk may do during one render.
ToolkitOutcomes ==
    {[draw |-> "ok", save_dpi |-> "ok", save |-> "ok"],
     [draw |-> "ok", save_dpi |-> "raise", save |-> "ok"],
     [draw |-> "ok", save_dpi |-> "raise", save |-> "raise"],
     [draw |-> "raise", save_dpi |-> "ok", save |-> "ok"]}

MaxCalls == 2

RenderSmiles == {None, <<" ">>, <<"C">>, <<" ", "C", "C">>, <<"(">>}

OutPaths ==
    {<<"a", ".", "p", "n", "g">>, <<"d", "/", "a", ".", "P", "n", "G">>,
     <<"a", ".", "s", "v", "g">>, <<"d", "/", "c", "/", "a", ".", "S", "V", "G">>,
     <<"a", ".", "t", "x", "t">>, <<"d", "/", "a">>, <<".", "p", "n", "g">>,
     <<"a", ".", "p", "n", "g", ".", "b">>, <<"d", "/", "a", ".", "s", "v">>}

GridOutPaths ==
    {<<"a", ".", "p", "n", "g">>, <<"d", "/", "c", "/", "a", ".", "S", "V", "G">>,
     <<"a", ".", "t", "x", "t">>, <<"d", "/", "a">>, <<"d", "/", "a", ".", "s", "v">>}

RenderLegends == {<<"a">>}

GridLists == {<<>>, <<<<"C">>, <<" ">>>>, <<<<"(">>, <<"C", "C">>>>}

RenderInit ==
    /\ pc = "render"
    /\ ParseIdle
    /\ ResolveIdle
    /\ RenderIdle
    /\ CmdIdle
    /\ BatchIdle

Apply(fn, args, effect) ==
    /\ call' = [fn |-> fn] @@ args
    /\ rendered' = effect.result
    /\ files' = effect.files
    /\ dirs' = effect.dirs
    /\ written' = effect.written
    /\ ncalls' = ncalls + 1

RenderMoleculeCall ==
    /\ pc = "render"
    /\ ncalls < MaxCalls
    /\ \E smiles \in RenderSmiles, out \in OutPaths, legend \in RenderLegends,
          env \in ToolkitOutcomes :
            Apply("render_molecule",
                  [smiles |-> <<smiles>>, out |-> out, legends |-> <<legend>>, title |-> None],
                  render_molecule(smiles, out, legend, [files |-> files, dirs |-> dirs], env))
    /\ UNCHANGED <<pc, parseVars, resolveVars, cmdVars, batchVars>>

RenderGridCall ==
    /\ pc = "render"
    /\ ncalls < MaxCalls
    /\ \E smiles_list \in GridLists, out \in GridOutPaths, labelled \in BOOLEAN,
          title \in {<<" ">>, <<"t">>}, env \in ToolkitOutcomes :
            LET legends == IF labelled THEN [k \in 1..Len(smiles_list) |-> <<"a">>] ELSE NoList
            IN  Apply("render_grid",
                      [smiles |-> smiles_list, out |-> out, legends |-> legends, title |-> title],
                      render_grid(smiles_list, out, legends, title,
                                  [files |-> files, dirs |-> dirs], env))
    /\ UNCHANGED <<pc, parseVars, resolveVars, cmdVars, batchVars>>

RenderNext == RenderMoleculeCall \/ RenderGridCall

SpecRender == RenderInit /\ [][RenderNext]_vars

-----------------------------------------------------------------------------
(* cli.py: _is_probably_smiles, _to_smiles, _write_caption, sorting        *)

smiles_chars ==
    {"#", "=", "(", ")", "[", "]", "@", "+", "\\", "/", "-",
     "0", "1", "2", "3", "4", "5", "6", "7", "8", "9"}

_is_probably_smiles(text) == \E k \in 1..Len(text) : text[k] \in smiles_chars

\* Returns (smiles, source, cid), or raises ValueError with the resolver's
\* message; whatever the resolver raises passes through.
_to_smiles(query, env) ==
    LET q == Strip(query)
    IN  IF _is_probably_smiles(q)
        THEN Return([smiles |-> q, source |-> "input", cid |-> "None"])
        ELSE LET rr == resolve_name_to_smiles(q, env)
             IN  IF rr.kind = "raise" THEN rr
                 ELSE IF ~Truthy(rr.value.smiles) THEN Raise("ValueError")
                 ELSE Return([smiles |-> rr.value.smiles, source |-> rr.value.source,
                              cid |-> rr.value.pubchem_cid])

\* Whether _to_smiles consults PubChem for this query.
LooksUp(query) == ~_is_probably_smiles(Strip(query)) /\ Strip(query) # <<>>

\* a < b for two texts: by code point, a proper prefix first.
TextLess(a, b) ==
    \E k \in 1..(Len(b)) :
        /\ \A j \in 1..(k - 1) : j <= Len(a) /\ a[j] = b[j]
        /\ k > Len(a) \/ CodePoint[a[k]] < CodePoint[b[k]]

sort_key(item) == Lower(item.label)

\* list.sort is stable: an item goes after the items whose key is not greater.
RECURSIVE InsertSorted(_, _)
InsertSorted(sorted, x) ==
    IF sorted = <<>> THEN <<x>>
    ELSE IF TextLess(sort_key(x), sort_key(sorted[Len(sorted)]))
    THEN Append(InsertSorted(SubSeq(sorted, 1, Len(sorted) - 1), x), sorted[Len(sorted)])
    ELSE Append(sorted, x)

RECURSIVE SortByName(_)
SortByName(list) ==
    IF list = <<>> THEN <<>>
    ELSE InsertSorted(SortByName(SubSeq(list, 1, Len(list) - 1)), list[Len(list)])

\* if order_by.lower() == "name": items.sort(key=lambda x: x[0].lower())
ordered(list, order_by) ==
    IF Lower(order_by) = <<"n", "a", "m", "e">> THEN SortByName(list) ELSE list

Labels(list) == [k \in 1..Len(list) |-> list[k].label]

Smiles(list) == [k \in 1..Len(list) |-> list[k].smiles]

\* The caption file: the panel's title, when not blank, and its legends.
_write_caption(path, title, legends, fsys) ==
    [files |-> WriteFile(fsys.files,
                         File(path, <<"c", "a", "p", "t", "i", "o", "n">>, <<>>, legends,
                              IF Strip(title) # <<>> THEN Strip(title) ELSE None)),
     dirs |-> mkdir_parents(fsys.dirs, path)]

-----------------------------------------------------------------------------
(* cli.py: the grid command                                                *)

Exit(code) == [kind |-> "Exit", code |-> code]

Returned == [kind |-> "return"]

\* names indexed by the place of the query among those kept.
label_index_kept(position, kept) == kept

\* Line 115: names is indexed by the position of the query among all the
\* queries, not among those kept (positions count from 1 here).
label_index(position, kept) == position

\* Lines 114-116: names and i < len(names) and names[i].strip()
label_for(q, names, k) ==
    IF names # NoList /\ k <= Len(names) /\ Strip(names[k]) # <<>>
    THEN Strip(names[k]) ELSE q

MaxQueries == 2

\* What PubChem may answer when a command looks a name up.
NoLookup == [by_name |-> Listed(<<>>), by_query |-> Listed(<<>>), asked |-> FALSE]

CmdLookups ==
    {NoLookup,
     [by_name |-> LookupRaises, by_query |-> Listed(<<>>), asked |-> TRUE],
     [by_name |-> Listed(<<>>), by_query |-> Listed(<<>>), asked |-> TRUE],
     [by_name |-> Listed(<<[canonical_smiles |-> <<"C", "C">>, isomeric_smiles |-> None,
                           cid |-> "702"]>>),
      by_query |-> Listed(<<>>), asked |-> TRUE]}

GridQueries == {<<"C", "=", "C">>, <<" ", "B">>, <<"a">>, <<" ">>}

GridNames == {<<" ">>, <<" ", "b">>}

ListsUpTo(S, n) == UNION {[1..k -> S] : k \in 0..n}

\* The failed render not looked at.
grid_exit_unchecked(ok) == Returned

\* Lines 140-142: a failed render ends the command with code 1.
grid_exit(ok) == IF ok THEN Returned ELSE Exit(1)

\* Line 103: the grid specification is parsed before any query is read.
GridStart ==
    /\ pc = "grid_start"
    /\ parsed' = _parse_grid(opts.grid)
    /\ IF parsed'.kind = "return"
       THEN pc' = "grid_loop" /\ exit' = exit
       ELSE pc' = "grid_done" /\ exit' = parsed'
    /\ UNCHANGED <<g, resolveVars, fsVars, renderVars, opts, i, items, skipped, lookups,
                   batchVars>>

\* Lines 106-118: one turn of the loop over the queries.
GridQuery ==
    /\ pc = "grid_loop"
    /\ i < Len(opts.queries)
    /\ \E env \in CmdLookups :
        LET q == Strip(opts.queries[i + 1])
            found == _to_smiles(q, env)
        IN  /\ LooksUp(q) \/ env = NoLookup
            /\ ~LooksUp(q) \/ env # NoLookup
            /\ lookups' = Append(lookups, env)
            /\ IF found.kind = "return"
               THEN /\ items' = Append(items, [label |-> label_for(q, opts.names,
                                                                   label_index(i + 1, Len(items) + 1)),
                                               smiles |-> found.value.smiles,
                                               pos |-> i + 1])
                    /\ UNCHANGED <<skipped, exit, pc>>
               ELSE IF found.exc = "ValueError"
               THEN /\ skipped' = Append(skipped, i + 1)
                    /\ UNCHANGED <<items, exit, pc>>
               ELSE /\ exit' = found
                    /\ pc' = "grid_done"
                    /\ UNCHANGED <<items, skipped>>
    /\ i' = i + 1
    /\ UNCHANGED <<parseVars, resolveVars, fsVars, renderVars, opts, batchVars>>

\* Lines 120-149: after the loop.
GridRender ==
    /\ pc = "grid_loop"
    /\ i = Len(opts.queries)
    /\ pc' = "grid_done"
    /\ IF items = <<>>
       THEN /\ exit' = Exit(2)
            /\ UNCHANGED <<items, fsVars, renderVars>>
       ELSE \E env \in ToolkitOutcomes :
            LET sorted == ordered(items, opts.order_by)
                legends == Labels(sorted)
                smiles_list == Smiles(sorted)
                rr == render_grid(smiles_list, opts.out, legends, opts.title,
                                  [files |-> files, dirs |-> dirs], env)
                captioned == IF rr.result.ok /\ Strip(opts.caption_file) # <<>>
                             THEN _write_caption(opts.caption_file, opts.title, legends,
                                                 [files |-> rr.files, dirs |-> rr.dirs])
                             ELSE [files |-> rr.files, dirs |-> rr.dirs]
            IN  /\ items' = sorted
                /\ call' = [fn |-> "render_grid", smiles |-> smiles_list, out |-> opts.out,
                            legends |-> legends, title |-> opts.title]
                /\ rendered' = rr.result
                /\ written' = rr.written
                /\ ncalls' = ncalls + 1
                /\ files' = captioned.files
                /\ dirs' = captioned.dirs
                /\ exit' = grid_exit(rr.result.ok)
    /\ UNCHANGED <<parseVars, resolveVars, opts, i, skipped, lookups, batchVars>>

GridInit ==
    /\ pc = "grid_start"
    /\ opts \in [queries : ListsUpTo(GridQueries, MaxQueries) \ {<<>>},
                  names : ListsUpTo(GridNames, MaxQueries) \cup {NoList},
                  grid : {<<"1", "X", " ", "2">>, <<"0", "x", "2">>, <<"2">>, <<"2", "x", "a">>},
                  out : {<<"p", ".", "s", "v", "g">>, <<"p", ".", "t", "x", "t">>},
                  title : {<<"t">>},
                  caption_file : {<<" ">>, <<"c", ".", "t", "x", "t">>},
                  order_by : {<<"i", "n", "p", "u", "t">>, <<"N", "a", "m", "e">>}]
    /\ i = 0
    /\ items = <<>>
    /\ skipped = <<>>
    /\ lookups = <<>>
    /\ exit = NoneRec
    /\ ParseIdle
    /\ ResolveIdle
    /\ RenderIdle
    /\ BatchIdle

GridNext == GridStart \/ GridQuery \/ GridRender

SpecGrid == GridInit /\ [][GridNext]_vars

-----------------------------------------------------------------------------
(* cli.py: the batch command                                               *)

\* A cell pandas read as missing: an empty field of the CSV file.
NaN == <<"NaN">>

\* str(cell): the text of a cell, "nan" for a missing one.
PyStr(cell) == IF cell = NaN THEN <<"n", "a", "n">> ELSE cell

\* Lines 184-185: str(row.get(col, "")).strip() if the column exists else ""
raw_cell(cell, has_col) == IF has_col THEN Strip(PyStr(cell)) ELSE <<>>

RECURSIVE Digits(_)
Digits(n) ==
    IF n < 10 THEN <<CharOf(48 + n)>>
    ELSE Append(Digits(n \div 10), CharOf(48 + (n % 10)))

\* f"{n:0{w}d}"
ZeroPad(n, w) ==
    LET d == Digits(n)
    IN  IF Len(d) >= w THEN d ELSE [k \in 1..(w - Len(d)) |-> "0"] \o d

LabelLimit == 80

\* Line 206
safe_label(legend) == Prefix(Replace(Replace(legend, " ", "_"), "/", "_"), LabelLimit)

\* The file named by the label alone.
out_file_unnumbered(outp, row, legend, fmt) ==
    outp \o <<"/">> \o safe_label(legend) \o <<".">> \o fmt

\* Line 207: outp / f"{i:04d}_{safe_label}.{fmt}"
out_file(outp, row, legend, fmt) ==
    outp \o <<"/">> \o ZeroPad(row, 4) \o <<"_">> \o safe_label(legend) \o <<".">> \o fmt

\* Line 233: outp / f"panel_{panel_index:03d}.{fmt}"
panel_file(outp, index, fmt) ==
    outp \o <<"/", "p", "a", "n", "e", "l", "_">> \o ZeroPad(index, 3) \o <<".">> \o fmt

\* Line 234: f"{panel_title_prefix} {panel_index:03d}"
panel_title(prefix, index) == prefix \o <<" ">> \o ZeroPad(index, 3)

\* Line 245: outp / f"panel_{panel_index:03d}_caption.txt"
caption_path(outp, index) ==
    outp \o <<"/", "p", "a", "n", "e", "l", "_">> \o ZeroPad(index, 3)
         \o <<"_", "c", "a", "p", "t", "i", "o", "n", ".", "t", "x", "t">>

\* One row of the report; the keys an entry was built without read NaN in
\* the DataFrame.
Entry(row, query, legend, ok, out, source, cid, message) ==
    [row |-> row, query |-> query, legend |-> legend, ok |-> ok, out |-> out,
     source |-> source, cid |-> cid, message |-> message]

ShortEntry(row, message) == Entry(row, NaN, NaN, FALSE, NaN, "NaN", "NaN", message)

\* A row that is not rendered leaves no entry.
record_failure_dropped(rows, row, message) == rows

\* Lines 189 and 199: a row that is not rendered is reported all the same.
record_failure(rows, row, message) == Append(rows, ShortEntry(row, message))

has_smiles == opts.smiles_col \in df.columns

has_name == opts.name_col \in df.columns

\* Panels that start one item after the other.
panel_start_by_one(index, capacity) == index - 1

\* Line 228: range(0, len(items), capacity), for the panel numbered index
panel_start(index, capacity) == (index - 1) * capacity

\* Line 229: items[start:start + capacity]
chunk_of(list, start, capacity) ==
    SubSeq(list, start + 1,
           IF start + capacity < Len(list) THEN start + capacity ELSE Len(list))

MaxRows == 2

RowToolkit ==
    {[draw |-> "ok", save_dpi |-> "ok", save |-> "ok"],
     [draw |-> "raise", save_dpi |-> "ok", save |-> "ok"]}

\* A legend one character longer than a file label may be.
LongName(last) == [k \in 1..(LabelLimit + 1) |-> IF k > LabelLimit THEN last ELSE "a"]

RichRows == [smiles : {NaN, <<" ">>, <<"C">>, <<"(">>}, name : {NaN, <<" ">>, <<"a", " ", "b">>}]

PlainRows == [smiles : {<<"C">>}, name : {LongName("b"), LongName("c"), <<"B">>}]

Tables ==
    {[columns |-> {"smiles", "name"}, rows |-> r] : r \in ListsUpTo(RichRows, MaxRows)}
    \cup {[columns |-> {"smiles", "name"}, rows |-> r] : r \in [1..(MaxRows + 1) -> PlainRows]}
    \cup {[columns |-> {"id", "smiles"}, rows |-> r] :
              r \in ListsUpTo({x \in RichRows : x.name = NaN}, MaxRows)}
    \cup {[columns |-> {"name"}, rows |-> r] :
              r \in ListsUpTo({x \in RichRows : x.smiles = NaN}, MaxRows)}
    \cup {[columns |-> {"id"}, rows |-> <<[smiles |-> NaN, name |-> NaN]>>]}

BatchInit ==
    /\ pc = "batch_start"
    /\ df \in Tables
    /\ opts \in [smiles_col : {"smiles"}, name_col : {"name"},
                  out_dir : {<<"o">>},
                  fmt : {<<"s", "v", "g">>, <<"t", "x", "t">>},
                  panel_grid : {<<"1", "x", "1">>, <<"1", " ", "X", "2">>,
                                <<"0", "x", "1">>, <<"x">>},
                  panel_title_prefix : {<<"P", "a", "n", "e", "l">>}]
    /\ report_rows = <<>>
    /\ report_csv = NoneRec
    /\ rendered_items = <<>>
    /\ panel_index = 0
    /\ panels = <<>>
    /\ i = 0
    /\ items = <<>>
    /\ skipped = <<>>
    /\ lookups = <<>>
    /\ exit = NoneRec
    /\ ParseIdle
    /\ ResolveIdle
    /\ RenderIdle

\* Lines 166-178: the output directory, the columns, the panel grid.
BatchStart ==
    /\ pc = "batch_start"
    /\ dirs' = dirs \cup Ancestors(opts.out_dir)
    /\ IF ~has_smiles /\ ~has_name
       THEN pc' = "batch_done" /\ exit' = Exit(2) /\ parsed' = parsed
       ELSE /\ parsed' = _parse_grid(opts.panel_grid)
            /\ IF parsed'.kind = "return"
               THEN pc' = "batch_loop" /\ exit' = exit
               ELSE pc' = "batch_done" /\ exit' = parsed'
    /\ UNCHANGED <<g, resolveVars, files, renderVars, opts, i, items, skipped, lookups,
                   batchVars>>

\* Lines 183-216: one row of the table.
BatchRow ==
    /\ pc = "batch_loop"
    /\ i < Len(df.rows)
    /\ \E env \in CmdLookups, tk \in RowToolkit :
        LET row == df.rows[i + 1]
            raw_smiles == raw_cell(row.smiles, has_smiles)
            raw_name == raw_cell(row.name, has_name)
            query == IF raw_smiles # <<>> THEN raw_smiles ELSE raw_name
            asks == query # <<>> /\ raw_smiles = <<>>
            rr == resolve_name_to_smiles(raw_name, env)
            smiles == IF raw_smiles # <<>> THEN raw_smiles ELSE rr.value.smiles
            source == IF raw_smiles # <<>> THEN "input_smiles" ELSE rr.value.source
            cid == IF raw_smiles # <<>> THEN "None" ELSE rr.value.pubchem_cid
            legend == IF raw_name # <<>> THEN raw_name ELSE query
            out == out_file(opts.out_dir, i, legend, opts.fmt)
            rr2 == render_molecule(smiles, out, legend, [files |-> files, dirs |-> dirs], tk)
            noted(asked, drawn, given) ==
                Append(lookups, [asked |-> asked, env |-> env, rendered |-> drawn,
                                 smiles |-> given])
        IN  /\ asks = env.asked
            /\ IF query = <<>>
               THEN /\ report_rows' = record_failure(report_rows, i, "empty")
                    /\ lookups' = noted(FALSE, FALSE, None)
                    /\ UNCHANGED <<rendered_items, fsVars, renderVars, pc, exit>>
               ELSE IF asks /\ rr.kind = "raise"
               THEN /\ exit' = rr
                    /\ pc' = "batch_done"
                    /\ lookups' = noted(TRUE, FALSE, None)
                    /\ UNCHANGED <<report_rows, rendered_items, fsVars, renderVars>>
               ELSE IF asks /\ ~Truthy(rr.value.smiles)
               THEN /\ report_rows' = record_failure(report_rows, i, rr.value.message)
                    /\ lookups' = noted(TRUE, FALSE, None)
                    /\ UNCHANGED <<rendered_items, fsVars, renderVars, pc, exit>>
               ELSE /\ report_rows' = Append(report_rows,
                            Entry(i, query, legend, rr2.result.ok, rr2.result.out_path,
                                  source, cid, rr2.result.message))
                    /\ rendered_items' =
                            IF rr2.result.ok
                            THEN Append(rendered_items,
                                        [label |-> legend, smiles |-> smiles, out |-> out,
                                         pos |-> i])
                            ELSE rendered_items
                    /\ lookups' = noted(asks, TRUE, smiles)
                    /\ call' = [fn |-> "render_molecule", smiles |-> <<smiles>>, out |-> out,
                                legends |-> <<legend>>, title |-> None]
                    /\ rendered' = rr2.result
                    /\ written' = rr2.written
                    /\ ncalls' = ncalls + 1
                    /\ files' = rr2.files
                    /\ dirs' = rr2.dirs
                    /\ UNCHANGED <<pc, exit>>
    /\ i' = i + 1
    /\ UNCHANGED <<parseVars, resolveVars, opts, items, skipped, df, report_csv,
                   panel_index, panels>>

\* Lines 219-227: the report is saved; then --make-panels is read and, for a
\* panel step, --captions and --order-by.
BatchReport ==
    /\ pc = "batch_loop"
    /\ i = Len(df.rows)
    /\ report_csv' = [rows |-> report_rows]
    /\ \E make_panels \in BOOLEAN :
        IF make_panels /\ rendered_items # <<>>
        THEN \E captions \in BOOLEAN,
                order_by \in {<<"i", "n", "p", "u", "t">>, <<"N", "A", "M", "E">>} :
                /\ opts' = [make_panels |-> make_panels, captions |-> captions,
                            order_by |-> order_by] @@ opts
                /\ items' = ordered(rendered_items, order_by)
                /\ panel_index' = 1
                /\ pc' = "batch_panels"
                /\ exit' = exit
        ELSE /\ opts' = [make_panels |-> make_panels] @@ opts
             /\ pc' = "batch_done"
             /\ exit' = Returned
             /\ UNCHANGED <<items, panel_index>>
    /\ UNCHANGED <<parseVars, resolveVars, fsVars, renderVars, i, skipped, lookups, df,
                   report_rows, rendered_items, panels>>

\* Lines 228-247: one panel.
BatchPanel ==
    /\ pc = "batch_panels"
    /\ panel_start(panel_index, parsed.rows * parsed.cols) < Len(items)
    /\ \E tk \in RowToolkit :
        LET capacity == parsed.rows * parsed.cols
            chunk == chunk_of(items, panel_start(panel_index, capacity), capacity)
            legends == Labels(chunk)
            smiles_list == Smiles(chunk)
            panel_out == panel_file(opts.out_dir, panel_index, opts.fmt)
            title == panel_title(opts.panel_title_prefix, panel_index)
            rr == render_grid(smiles_list, panel_out, legends, title,
                              [files |-> files, dirs |-> dirs], tk)
            captioned == IF opts.captions
                         THEN _write_caption(caption_path(opts.out_dir, panel_index), title,
                                             legends, [files |-> rr.files, dirs |-> rr.dirs])
                         ELSE [files |-> rr.files, dirs |-> rr.dirs]
        IN  /\ call' = [fn |-> "render_grid", smiles |-> smiles_list, out |-> panel_out,
                        legends |-> legends, title |-> title]
            /\ rendered' = rr.result
            /\ written' = rr.written
            /\ ncalls' = ncalls + 1
            /\ files' = captioned.files
            /\ dirs' = captioned.dirs
            /\ panels' = Append(panels, [index |-> panel_index, title |-> title,
                                         out |-> panel_out, items |-> chunk,
                                         ok |-> rr.result.ok])
    /\ panel_index' = panel_index + 1
    /\ UNCHANGED <<pc, parseVars, resolveVars, cmdVars, df, report_rows, report_csv,
                   rendered_items>>

\* Lines 249-250: no panel is left.
BatchEnd ==
    /\ pc = "batch_panels"
    /\ panel_start(panel_index, parsed.rows * parsed.cols) >= Len(items)
    /\ pc' = "batch_done"
    /\ exit' = Returned
    /\ UNCHANGED <<parseVars, resolveVars, fsVars, renderVars, opts, i, items, skipped,
                   lookups, batchVars>>

BatchNext == BatchStart \/ BatchRow \/ BatchReport \/ BatchPanel \/ BatchEnd

SpecBatch == BatchInit /\ [][BatchNext]_vars

-----------------------------------------------------------------------------
(* Properties of _parse_grid (SpecParse)                                   *)

\* The rows and cols parts of a grid specification, as the specification
\* describes it: case and spaces ignored, split at the first "x".
GridText(text) == Remove(Lower(text), " ")

RowsPart(text) == SubSeq(GridText(text), 1, Find(GridText(text), "x") - 1)

ColsPart(text) == SubSeq(GridText(text), Find(GridText(text), "x") + 1, Len(GridText(text)))

Unparsable(text) ==
    \/ ~Contains(GridText(text), "x")
    \/ PyInt(RowsPart(text)).kind # "int"
    \/ PyInt(ColsPart(text)).kind # "int"

NonPositive(text) ==
    /\ ~Unparsable(text)
    /\ PyInt(RowsPart(text)).value <= 0 \/ PyInt(ColsPart(text)).value <= 0

\* C9: a grid specification "<rows>x<cols>" with both parts positive integers
\* is accepted and gives (rows, cols); one whose rows or cols part is not
\* positive or cannot be parsed as an integer, a missing "x" included, ends in
\* the parameter error (typer.BadParameter) and returns no pair.
C9_BadGridIsParameterError ==
    pc = "parse_done" =>
        IF Unparsable(g) \/ NonPositive(g)
        THEN parsed.kind = "BadParameter"
        ELSE /\ parsed.kind = "return"
             /\ parsed.rows = PyInt(RowsPart(g)).value /\ parsed.rows > 0
             /\ parsed.cols = PyInt(ColsPart(g)).value /\ parsed.cols > 0

-----------------------------------------------------------------------------
(* Properties of resolve_name_to_smiles (SpecResolve)                      *)

\* The compounds the resolver gets to see: those of the lookup by name or,
\* when it lists none, those of the lookup as a query.
LookupFaults ==
    \/ pubchem.by_name.kind = "raise"
    \/ pubchem.by_name.compounds = <<>> /\ pubchem.by_query.kind = "raise"

Matches ==
    IF LookupFaults THEN <<>>
    ELSE IF pubchem.by_name.compounds # <<>> THEN pubchem.by_name.compounds
    ELSE pubchem.by_query.compounds

Usable(c) == Truthy(c.canonical_smiles) \/ Truthy(c.isomeric_smiles)

\* C8: the resolver always returns a result; the result has a structure only
\* if its message is "OK" and the lookup listed a match with a usable string;
\* for an empty name, a fault, no match, or a first match without a string the
\* structure is absent.
C8_SmilesOnlyWhenOK ==
    pc = "resolve_done" =>
        /\ resolved.kind = "return"
        /\ resolved.value.smiles # None =>
                /\ resolved.value.message = "OK"
                /\ Truthy(resolved.value.smiles)
                /\ \E k \in 1..Len(Matches) : Usable(Matches[k])
        /\ (Strip(name) = <<>> \/ LookupFaults \/ Matches = <<>> \/ ~Usable(Matches[1])) =>
                resolved.value.smiles = None
        /\ LookupFaults /\ Strip(name) # <<>> => resolved.value.pubchem_cid = "None"

\* A structure found by the fallback lookup, the lookup by name listing nothing.
C8_Witness ==
    /\ pc = "resolve_done"
    /\ pubchem.by_name = Listed(<<>>)
    /\ resolved.kind = "return"
    /\ resolved.value.smiles = <<"C", "C">>
    /\ resolved.value.message = "OK"

-----------------------------------------------------------------------------
(* Properties of the renderers (SpecRender)                                *)

\* C4: a RenderResult with ok=true has an output path, and the call wrote the
\* file at that path; a result with ok=false has no output path.
C4_OkMeansWritten ==
    rendered # NoneRec =>
        /\ rendered.ok =>
                /\ rendered.out_path # None
                /\ rendered.out_path \in written
                /\ \E f \in files : f.path = rendered.out_path
        /\ ~rendered.ok => rendered.out_path = None

\* A panel written as a PNG file.
C4_Witness ==
    /\ rendered # NoneRec
    /\ rendered.ok
    /\ call.fn = "render_grid"
    /\ \E f \in files : f.path = rendered.out_path /\ f.kind = PNG

\* The extension of a path, compared without case, is neither .png nor .svg.
OtherExtension(path) ==
    \/ Len(path) < 4
    \/ Lower(SubSeq(path, Len(path) - 3, Len(path))) \notin {PNG, SVG}

\* C5: for an output path whose extension is neither .png nor .svg, either
\* renderer returns a failure and writes no file, whatever the structure is;
\* only directories may have been created.
C5_OtherExtensionWritesNothing ==
    /\ \A f \in files : ~OtherExtension(f.path)
    /\ call # NoneRec /\ OtherExtension(call.out) =>
            /\ ~rendered.ok
            /\ rendered.out_path = None
            /\ written = {}

\* A valid structure and a .txt path in a directory: the directory is made,
\* the render is refused.
C5_Witness ==
    /\ call # NoneRec
    /\ call.fn = "render_molecule"
    /\ call.smiles = <<<<"C">>>>
    /\ call.out = <<"d", "/", "a", ".", "s", "v">>
    /\ <<"d">> \in dirs
    /\ ~rendered.ok

-----------------------------------------------------------------------------
(* Properties of the grid command (SpecGrid)                               *)

CaptionWritten == \E f \in files : f.kind = <<"c", "a", "p", "t", "i", "o", "n">>

\* The resolution of the k-th query fails: _to_smiles raises for it.
ResolutionFails(k) == _to_smiles(opts.queries[k], lookups[k]).kind = "raise"

IsSkipped(k) == \E j \in 1..Len(skipped) : skipped[j] = k

IsKept(k) == \E j \in 1..Len(items) : items[j].pos = k

\* C7: a query whose resolution fails is skipped and the queries after it are
\* still processed; the command ends with code 2, the grid renderer not
\* called, exactly when every query was skipped; it ends with code 1 when the
\* grid renderer fails; the caption file is written only after a successful
\* render.
C7_GridExitCodes ==
    /\ pc \in {"grid_loop", "grid_done"} /\ parsed.kind = "return" =>
            /\ Len(lookups) = i
            /\ \A k \in 1..i : IsSkipped(k) <=> ResolutionFails(k)
            /\ \A k \in 1..i : IsKept(k) <=> ~ResolutionFails(k)
    /\ pc = "grid_done" =>
            /\ parsed.kind = "return" => i = Len(opts.queries)
            /\ exit = Exit(2) <=>
                    (parsed.kind = "return" /\ Len(skipped) = Len(opts.queries))
            /\ exit = Exit(2) => ncalls = 0
            /\ (rendered # NoneRec /\ ~rendered.ok) => exit = Exit(1)
            /\ CaptionWritten => rendered # NoneRec /\ rendered.ok
    /\ pc # "grid_done" => ~CaptionWritten /\ exit = NoneRec

\* The first query skipped, the second rendered and captioned.
C7_Witness ==
    /\ pc = "grid_done"
    /\ skipped = <<1>>
    /\ Len(items) = 1
    /\ rendered # NoneRec
    /\ rendered.ok
    /\ CaptionWritten
    /\ exit = Returned

\* The legend the k-th query is to carry: its --name label, the query text
\* when that label is missing or blank (both without surrounding blanks).
ExpectedLegend(k) ==
    IF opts.names # NoList /\ k <= Len(opts.names) /\ Strip(opts.names[k]) # <<>>
    THEN Strip(opts.names[k])
    ELSE Strip(opts.queries[k])

\* C10: the legends and the structures passed to the grid renderer have the
\* same length; each kept query carries the label of its own position, so a
\* skipped query shifts no label; sorting by name keeps each legend with its
\* structure.
C10_LegendsFollowQueries ==
    /\ \A k \in 1..Len(items) :
            /\ items[k].label = ExpectedLegend(items[k].pos)
            /\ items[k].smiles = _to_smiles(opts.queries[items[k].pos],
                                            lookups[items[k].pos]).value.smiles
            /\ \A j \in 1..Len(items) : j # k => items[j].pos # items[k].pos
    /\ call # NoneRec =>
            /\ Len(call.legends) = Len(call.smiles)
            /\ Len(call.legends) = Len(items)
            /\ \A k \in 1..Len(items) :
                    call.legends[k] = items[k].label /\ call.smiles[k] = items[k].smiles
            /\ \A k \in 1..Len(opts.queries) : IsKept(k) <=> ~IsSkipped(k)
            /\ \A j, k \in 1..Len(items) :
                    j < k =>
                        IF Lower(opts.order_by) = <<"n", "a", "m", "e">>
                        THEN /\ ~TextLess(Lower(items[k].label), Lower(items[j].label))
                             /\ Lower(items[k].label) = Lower(items[j].label) =>
                                    items[j].pos < items[k].pos
                        ELSE items[j].pos < items[k].pos

\* The first query skipped; the second carries the second label, and a
\* sort by name has moved a later query ahead of an earlier one.
C10_Witness ==
    /\ call # NoneRec
    /\ \/ /\ skipped = <<1>>
          /\ opts.names = <<<<" ">>, <<" ", "b">>>>
          /\ call.legends = <<<<"b">>>>
       \/ /\ Len(items) = 2
          /\ items[1].pos = 2
          /\ opts.names = <<<<" ">>, <<" ", "b">>>>

-----------------------------------------------------------------------------
(* Properties of the batch command (SpecBatch)                             *)

\* The persisted report holds one entry per row of the table, in row order.
ReportComplete ==
    /\ report_csv # NoneRec
    /\ Len(report_csv.rows) = Len(df.rows)
    /\ \A k \in 1..Len(df.rows) : report_csv.rows[k].row = k - 1

\* While the rows are read, every row read so far has its entry.
RowsRecorded ==
    pc = "batch_loop" =>
        /\ Len(report_rows) = i
        /\ \A k \in 1..i : report_rows[k].row = k - 1

\* A step taken while a row is left reads that row, records it after the
\* entries of the rows before it, and stays in the loop.
RowStep ==
    (pc = "batch_loop" /\ i < Len(df.rows)) =>
        /\ pc' = "batch_loop"
        /\ i' = i + 1
        /\ Len(report_rows') = i + 1
        /\ report_rows'[i + 1].row = i
        /\ SubSeq(report_rows', 1, i) = report_rows

\* The step taken when no row is left persists the entries collected.
ReportStep ==
    (pc = "batch_loop" /\ i = Len(df.rows)) =>
        /\ report_csv' = [rows |-> report_rows]
        /\ pc' \in {"batch_panels", "batch_done"}

\* The rows were reached: a column is there and --panel-grid was read.
RowsReached == parsed.kind = "return" /\ (has_smiles \/ has_name)

\* C1: for a table with one of the two columns, whatever the rows' outcomes,
\* every row is read and recorded in turn, no row's outcome ends the loop,
\* and the run ends with a persisted report that holds exactly one entry per
\* row in row order.
C1_EveryRowReported ==
    /\ []RowsRecorded
    /\ []((pc \in {"batch_panels", "batch_done"} /\ RowsReached) =>
            (i = Len(df.rows) /\ ReportComplete))
    /\ []((pc = "batch_done" /\ RowsReached) => exit = Returned)
    /\ [][RowStep /\ ReportStep]_vars

\* A row whose name PubChem does not know, then a row that is rendered, both
\* in the persisted report.
C1_Witness ==
    /\ pc = "batch_done"
    /\ ReportComplete
    /\ Len(report_csv.rows) >= 2
    /\ lookups[1].asked
    /\ ~report_csv.rows[1].ok
    /\ report_csv.rows[2].ok

\* A cell is empty: its column is absent, the field is empty, or it holds
\* blanks only.
CellEmpty(cell, has_col) == ~has_col \/ cell = NaN \/ Strip(cell) = <<>>

\* C2: a row with a non-empty structure cell is rendered from that cell
\* and the resolver is not called; otherwise a non-empty name cell is
\* resolved; a row with both cells empty is recorded with message "empty",
\* the resolver and the renderer not called.
C2_StructureChoice ==
    \A k \in 1..Len(lookups) :
        LET row == df.rows[k]
            noSmiles == CellEmpty(row.smiles, has_smiles)
            noName == CellEmpty(row.name, has_name)
        IN  /\ ~noSmiles =>
                    /\ ~lookups[k].asked
                    /\ lookups[k].rendered
                    /\ lookups[k].smiles = Strip(row.smiles)
            /\ (noSmiles /\ ~noName) => lookups[k].asked
            /\ (noSmiles /\ noName) =>
                    /\ ~lookups[k].asked
                    /\ ~lookups[k].rendered
                    /\ k <= Len(report_rows)
                    /\ ~report_rows[k].ok
                    /\ report_rows[k].message = "empty"

Ceil(n, c) == (n + c - 1) \div c

Capacity == parsed.rows * parsed.cols

\* The panel step was run.
PanelsMade ==
    /\ pc = "batch_done"
    /\ "make_panels" \in DOMAIN opts
    /\ opts.make_panels
    /\ rendered_items # <<>>

\* The panel image files on disk.
PanelFiles ==
    {f \in files : /\ f.kind \in {SVG, PNG}
                   /\ Prefix(PathName(f.path), 6) = <<"p", "a", "n", "e", "l", "_">>}

\* The title of the k-th panel, k < 10.
NumberedTitle(k) == opts.panel_title_prefix \o <<" ", "0", "0", CharOf(48 + k)>>

\* The panels drawn are ceil(N / capacity), numbered and titled from 001,
\* full but for the last, and every rendered item is in exactly one.
PanelsPartition ==
    /\ Len(panels) = Ceil(Len(rendered_items), Capacity)
    /\ \A k \in 1..Len(panels) :
            /\ panels[k].index = k
            /\ panels[k].title = NumberedTitle(k)
            /\ Len(panels[k].items) >= 1
            /\ Len(panels[k].items) <= Capacity
            /\ k < Len(panels) => Len(panels[k].items) = Capacity
    /\ \A r \in 1..Len(rendered_items) :
            Cardinality({c \in {<<k, j>> : k \in 1..Len(panels), j \in 1..Len(rendered_items)} :
                            /\ c[2] <= Len(panels[c[1]].items)
                            /\ panels[c[1]].items[c[2]] = rendered_items[r]}) = 1

\* C3, as stated: with make-panels on and N >= 1 rendered items the panel
\* step writes exactly ceil(N / capacity) panels, numbered and titled from
\* 001, full but for the last, every rendered item in exactly one panel.
C3_PanelCount ==
    PanelsMade =>
        /\ PanelsPartition
        /\ Cardinality(PanelFiles) = Ceil(Len(rendered_items), Capacity)

\* C3, amended: the panel step asks the grid renderer for exactly
\* ceil(N / capacity) panels, numbered and titled from 001, full but for the
\* last, every rendered item in exactly one; a panel's file is on disk
\* exactly when its render succeeded, so at most ceil(N / capacity) files.
C3_PanelsDrawn ==
    /\ pc = "batch_panels" => Len(panels) = panel_index - 1
    /\ PanelsMade =>
            /\ PanelsPartition
            /\ \A k \in 1..Len(panels) :
                    panels[k].ok <=> (\E f \in PanelFiles : f.path = panels[k].out)
            /\ \A f \in PanelFiles : \E k \in 1..Len(panels) : f.path = panels[k].out
            /\ Cardinality(PanelFiles) <= Ceil(Len(rendered_items), Capacity)

\* Three rendered items in panels of two: two panels, the second with one
\* item, both on disk.
C3_Witness ==
    /\ PanelsMade
    /\ Len(rendered_items) = 3
    /\ Capacity = 2
    /\ Len(panels) = 2
    /\ Len(panels[2].items) = 1
    /\ Cardinality(PanelFiles) = 2

\* The legend as a file label: blanks and slashes replaced, at most
\* LabelLimit characters.
Sanitized(legend) ==
    [k \in 1..(IF Len(legend) < LabelLimit THEN Len(legend) ELSE LabelLimit) |->
        IF legend[k] \in {" ", "/"} THEN "_" ELSE legend[k]]

\* The output path of row number n (n < 10) with this legend.
RowPath(n, legend) ==
    opts.out_dir \o <<"/", "0", "0", "0", CharOf(48 + n), "_">> \o Sanitized(legend)
                 \o <<".">> \o opts.fmt

\* The images of single rows on disk.
RowFiles == {f \in files : f.kind \in {SVG, PNG}} \ PanelFiles

\* C6: a row recorded ok=true has exactly one image file, at the recorded
\* path, which is made of the zero-padded row index and the sanitized
\* legend; no two rows share a file; a row recorded ok=false has no path.
C6_OneFilePerOkRow ==
    /\ \A k \in 1..Len(report_rows) :
            LET e == report_rows[k]
            IN  IF e.ok
                THEN /\ e.out = RowPath(e.row, e.legend)
                     /\ \E f \in RowFiles : f.path = e.out /\ f.legends = <<e.legend>>
                     /\ \A j \in 1..Len(report_rows) :
                            (j # k /\ report_rows[j].ok) => report_rows[j].out # e.out
                ELSE e.out \in {None, NaN}
    /\ Cardinality(RowFiles) =
            Cardinality({k \in 1..Len(report_rows) : report_rows[k].ok})

\* Two rendered rows whose legends differ only past the length a label
\* keeps: the same label, two files.
C6_Witness ==
    /\ Len(report_rows) >= 2
    /\ report_rows[1].ok
    /\ report_rows[2].ok
    /\ report_rows[1].legend # report_rows[2].legend
    /\ Sanitized(report_rows[1].legend) = Sanitized(report_rows[2].legend)
    /\ Cardinality(RowFiles) = 2

====
